---------------------------- MODULE Spec2Model ----------------------------
(***************************************************************************)
(* A model of the airqua pipeline: the local store's upsert                *)
(* (src/src/data_handler.py, DatabaseManager), the chunked upload to the   *)
(* remote datastore (src/src/data_handler.py, Ckan), the date-grid walker, *)
(* key builder, dispatch and form session of the scraper                   *)
(* (src/src/airnow.py, Pollution), the scheduled jobs (src/scheduler.py)   *)
(* and the ID filter of the command line (src/cli.py).                     *)
(*                                                                         *)
(* The module holds one specification per component (see Specifications). *)
(* They share the variables; the variables of the components a             *)
(* specification does not exercise keep their idle value.                  *)
(***************************************************************************)
EXTENDS Integers, Sequences, FiniteSets, TLC

VARIABLES
    \* ---- DatabaseManager (one table of the SQLite file) ----
    schema,      \* TRUE when the table exists in the database file
    table,       \* the committed content: ID -> value of the row, or Absent
    dbPc,        \* position of the running upsert_results call
    dbRows,      \* the DataFrame handed to the running / last call
    dbPre,       \* the committed content when the running / last call began
    dbRepeat,    \* the call repeats the row set of the call completed just before
    dbPrev,      \* the committed content when that previous call completed
    dbExpect     \* per ID: the row of the latest call that contained it

VARIABLES
    \* ---- Ckan._upload_records (one call) ----
    records,       \* the records argument
    chunk_size,    \* the chunk_size argument
    left_bound,
    right_bound,
    report_chunk,  \* <<first, last>> positions of records[left_bound:right_bound]
    record_count,
    upPc,          \* position in _upload_records
    upCalls,       \* every call of _upload_record_chunk so far, in order
    upErr,         \* the exception that left _upload_records, or NoError
    upSlept,       \* time spent in time.sleep by the call
    upRetries      \* failed chunk uploads that were retried so far

VARIABLES
    \* ---- the source site, as one Pollution walker sees it ----
    siteStations,  \* the stationInfo page: stations in page order, each
                   \* with its ID and establishment date
    \* ---- Pollution (the date-grid walker), one query ----
    stations_info, \* self.stations_info: NotFetched, or the fetched page
    wlkArgs,       \* the query: which walker, year, month, day
    wlkSite,       \* what the site answers: day -> station ID -> number
                   \* of hourly rows it has (0: the "no records" page)
    wlkPc,         \* "call" before the query runs, "returned" after
    wlkResult,     \* the value returned
    wlkRequests,   \* the station-day requests sent, in order
    wlkDays,       \* the days get_data_by_day was called for, in order
    wlkStored      \* IDs upserted into the Stations table by the query

VARIABLES
    \* ---- Pollution._clean_output_table, one call ----
    stations,      \* self.stations: the IDs of the station options
    keyCells,      \* the <<date, hour, station ID>> each site row stands for
    keyTable,      \* the table argument: the rows as the site gave them
    keyPc,         \* "call" before the call, "returned" after
    keyOut         \* the table returned, each row with its ID

VARIABLES
    \* ---- Pollution.get_data / Pollution.upsert_data, one call ----
    dataErr,       \* the exception that left the call, or NoError
    dataOut,       \* the table get_data returned
    dataUpserts    \* the ID lists handed to upsert_results("Pollution", .)

VARIABLES
    \* ---- _AirNow: the class-level request state and the sessions ----
    headers_Cookie, \* _AirNow._headers["Cookie"]; one dict for the class
    data,           \* _AirNow._data; one dict for the class
    sesPage,        \* per session object: the hidden fields of the page
                    \* its _setup_session received
    sesOpened,      \* per session object, in the order of construction:
                    \* the cookie the server gave it
    sesSent         \* the requests of _request_hourly_data so far, in order

VARIABLES
    \* ---- scheduler.py: the loop of __main__ and one hourly_update ----
    schPc,         \* position of the process
    schJob,        \* the job that is running or ran last
    schPings,      \* the states pinged to DATA_FLOW_URL by the running /
                   \* last hourly_update, in order
    schAttempts,   \* outcomes of the attempts of get_and_upload_data
    schSessions,   \* Pollution objects constructed by the run
    schSlept,      \* time spent in time.sleep by get_and_upload_data
    schUploads,    \* calls of ckan.add_recordes_from_database by the run
    schReturn,     \* what get_and_upload_data returned
    schErr,        \* the exception that left the loop of __main__
    schRuns        \* hourly triggers fired so far

VARIABLES
    \* ---- cli.py: build_id_filter_query and the rows it selects ----
    fltArgs,       \* the parsed arguments
    fltStored,     \* the <<date, hour, station ID>> of the rows stored in
                   \* the Pollution table
    fltQuery,      \* the pattern between the quotes of "ID LIKE '...'"
    fltSelected,   \* the stored rows whose ID the pattern matches
    fltPc          \* "call", "built" once the filter is built, "returned"

dbVars == <<schema, table, dbPc, dbRows, dbPre, dbRepeat, dbPrev, dbExpect>>
upVars == <<records, chunk_size, left_bound, right_bound, report_chunk,
            record_count, upPc, upCalls, upErr, upSlept, upRetries>>

wlkVars == <<siteStations, stations_info, wlkArgs, wlkSite, wlkPc, wlkResult,
             wlkRequests, wlkDays, wlkStored>>

keyVars == <<stations, keyCells, keyTable, keyPc, keyOut>>

dataVars == <<dataErr, dataOut, dataUpserts>>

sesVars == <<headers_Cookie, data, sesPage, sesOpened, sesSent>>

schVars == <<schPc, schJob, schPings, schAttempts, schSessions, schSlept, schUploads,
             schReturn, schErr, schRuns>>

fltVars == <<fltArgs, fltStored, fltQuery, fltSelected, fltPc>>

vars == <<dbVars, upVars, wlkVars, keyVars, dataVars, sesVars, schVars,
          fltVars>>

\* What an action of one component leaves alone: the other components.
notDb == <<upVars, wlkVars, keyVars, dataVars, sesVars, schVars, fltVars>>
notUp == <<dbVars, wlkVars, keyVars, dataVars, sesVars, schVars, fltVars>>
notWlk == <<dbVars, upVars, keyVars, dataVars, sesVars, schVars, fltVars>>
notKey == <<dbVars, upVars, wlkVars, dataVars, sesVars, schVars, fltVars>>
\* get_data runs a walker and reads self.stations.
notData == <<dbVars, upVars, keyVars, sesVars, schVars, fltVars>>
notSes == <<dbVars, upVars, wlkVars, keyVars, dataVars, schVars, fltVars>>
notSch == <<dbVars, upVars, wlkVars, keyVars, dataVars, sesVars, fltVars>>
notFlt == <<dbVars, upVars, wlkVars, keyVars, dataVars, sesVars, schVars>>

(***************************************************************************)
(* Bounds of the model.                                                    *)
(***************************************************************************)
MaxKey == 2
MaxRows == 2
MaxRecords == 3
MaxChunk == 2
MaxRetries == 2
MaxStations == 2
MaxHours == 2
FirstYear == 1380
YearCount == 33
KeyMaxStation == 11
MaxSessions == 2
MaxRequests == 2
MaxRuns == 3

(***************************************************************************)
(* DatabaseManager.upsert_results                                          *)
(***************************************************************************)
Keys == 1..MaxKey
\* The rest of a row.  upsert_results never looks into it, so two different
\* contents are enough to tell a replaced row from the row it replaces.
Vals == {"a", "b"}
Absent == "absent"
Unknown == "unknown"

\* A DataFrame: a sequence of rows, each with its index value (ID) and the
\* rest of the row.  The index of a DataFrame may hold the same ID twice.
Row == [ID : Keys, val : Vals]
RowSets == UNION {[1..n -> Row] : n \in 0..MaxRows}

Contents == [Keys -> Vals \cup {Absent}]
EmptyTable == [k \in Keys |-> Absent]

\* table.index.to_list()
IndexList(rows) == {rows[i].ID : i \in DOMAIN rows}

DistinctIds(rows) ==
    \A i, j \in DOMAIN rows : rows[i].ID = rows[j].ID => i = j

\* DELETE FROM table WHERE ID IN ids
DeleteNothing(t, ids) == t
DeleteAll(t, ids) == [k \in DOMAIN t |-> Absent]
DeleteIds(t, ids) == [k \in DOMAIN t |-> IF k \in ids THEN Absent ELSE t[k]]

\* The row a DataFrame with distinct IDs gives for ID k.
GivenVal(rows, k) == rows[CHOOSE i \in DOMAIN rows : rows[i].ID = k].val

\* The primary key lets an INSERT through only if no ID is stored already
\* and no ID comes twice in the rows.
PrimaryKeyFree(t, rows) ==
    /\ DistinctIds(rows)
    /\ \A i \in DOMAIN rows : t[rows[i].ID] = Absent

\* table.to_sql(..., if_exists="append"): the rows are added to the table.
AppendRows(t, rows) ==
    [k \in DOMAIN t |->
        IF k \in IndexList(rows)
        THEN (CHOOSE r \in {rows[i] : i \in DOMAIN rows} : r.ID = k).val
        ELSE t[k]]

DbAtRest == dbPc \in {"idle", "done", "failed", "crashed"}

\* Lines 152-159: create the table if it is missing, delete the rows whose ID
\* is in the DataFrame's index, and commit.
upsert_results_delete(rows) ==
    /\ DbAtRest
    /\ schema' = TRUE
    /\ table' = DeleteIds(table, IndexList(rows))
    /\ dbPc' = "deleted"
    /\ dbRows' = rows
    /\ dbPre' = table
    /\ dbRepeat' = (dbPc = "done" /\ rows = dbRows)
    /\ dbPrev' = IF dbPc = "done" /\ rows = dbRows THEN table ELSE EmptyTable
    /\ UNCHANGED <<dbExpect, notDb>>

\* Lines 160-161: to_sql inserts the rows in a transaction of its own.  A
\* primary-key conflict raises IntegrityError and rolls the insert back.
upsert_results_to_sql ==
    /\ dbPc = "deleted"
    /\ IF PrimaryKeyFree(table, dbRows)
       THEN /\ table' = AppendRows(table, dbRows)
            /\ dbPc' = "done"
            /\ dbExpect' = [k \in Keys |->
                   IF k \in IndexList(dbRows) THEN GivenVal(dbRows, k)
                   ELSE dbExpect[k]]
       ELSE /\ table' = table
            /\ dbPc' = "failed"
            /\ dbExpect' = [k \in Keys |->
                   IF k \in IndexList(dbRows) THEN Unknown ELSE dbExpect[k]]
    /\ UNCHANGED <<schema, dbRows, dbPre, dbRepeat, dbPrev, notDb>>

\* The process dies after the commit of line 159 and before the insert of
\* line 160 is committed.
ProcessCrash ==
    /\ dbPc = "deleted"
    /\ dbPc' = "crashed"
    /\ dbExpect' = [k \in Keys |->
           IF k \in IndexList(dbRows) THEN Unknown ELSE dbExpect[k]]
    /\ UNCHANGED <<schema, table, dbRows, dbPre, dbRepeat, dbPrev, notDb>>

\* The database of a run that never calls upsert_results.
DbIdle ==
    /\ schema = FALSE
    /\ table = EmptyTable
    /\ dbPc = "idle"
    /\ dbRows = <<>>
    /\ dbPre = EmptyTable
    /\ dbRepeat = FALSE
    /\ dbPrev = EmptyTable
    /\ dbExpect = EmptyTable

DbInit ==
    /\ schema \in BOOLEAN
    /\ table \in Contents
    /\ (~schema => table = EmptyTable)
    /\ dbPc = "idle"
    /\ dbRows = <<>>
    /\ dbPre = table
    /\ dbRepeat = FALSE
    /\ dbPrev = EmptyTable
    /\ dbExpect = table

DbNext ==
    \/ \E rows \in RowSets : upsert_results_delete(rows)
    \/ upsert_results_to_sql
    \/ ProcessCrash

(***************************************************************************)
(* Ckan._upload_records and Ckan._upload_record_chunk                      *)
(***************************************************************************)
Min(a, b) == IF a <= b THEN a ELSE b

NoError == "none"
NoneId == "None"
\* Identifiers the remote API may give for the alias; it may change between
\* two lookups.
ResourceIds == {"r1", "r2"}

\* The exceptions a chunk upload can end with, and the classes each one is an
\* instance of.  json.JSONDecodeError is the class imported at line 41;
\* "ConnectionError" is Python's builtin, the class the bare name at line 371
\* refers to, since the module imports no other.  The HTTP client (line 45)
\* raises its own requests.exceptions classes.
Classes(exc) ==
    CASE exc = "requests.JSONDecodeError" ->
             {"requests.JSONDecodeError", "requests.InvalidJSONError",
              "json.JSONDecodeError", "ValueError",
              "requests.RequestException", "OSError", "Exception"}
      [] exc = "requests.ConnectionError" ->
             {"requests.ConnectionError", "requests.RequestException",
              "OSError", "Exception"}
      [] exc = "requests.ReadTimeout" ->
             {"requests.ReadTimeout", "requests.Timeout",
              "requests.RequestException", "OSError", "Exception"}
      [] exc = "ConnectionError" ->
             {"ConnectionError", "OSError", "Exception"}
      [] exc = "AssertionError" ->
             {"AssertionError", "Exception"}

\* What requests.post / response.json() can raise inside one chunk upload.
HttpFailures ==
    {"requests.JSONDecodeError", "requests.ConnectionError",
     "requests.ReadTimeout", "ConnectionError"}

\* The connection failure the HTTP client raises.
ClientConnectionFailures == {"requests.ConnectionError"}

\* find_resource_id: an identifier, None (KeyError on the answer), or an
\* exception of the request.
ResolveOutcomes == ResourceIds \cup {NoneId} \cup HttpFailures
\* The datastore_upsert request and the reading of its answer.
PostOutcomes == {"success", "unsuccessful"} \cup HttpFailures

\* Line 372.
UploadCooldown == 60

\* Line 351 and line 363.
NextRightFromStart(right, size, n) == Min(size, n)
NextRightUncapped(right, size, n) == right + size
NextRight(right, size, n) == Min(right + size, n)

\* Line 361.
RecordCountOffByOne(right, n) == right >= n - 1
RecordCount(right, n) == right = n

\* Line 387.
HandleUnchecked(resource_id) == TRUE
HandleAsserted(resource_id) == resource_id # NoneId

\* Whether _upload_record_chunk gets as far as the datastore_upsert request
\* of lines 388-397.
UpsertSent(r) == r \notin HttpFailures /\ HandleAsserted(r)

\* What _upload_record_chunk raises (lines 385-398), NoError if it returns.
ChunkRaises(r, p) ==
    IF r \in HttpFailures THEN r
    ELSE IF ~HandleAsserted(r) THEN "AssertionError"
    ELSE IF p \in HttpFailures THEN p
    ELSE IF p = "unsuccessful" THEN "AssertionError"
    ELSE NoError

\* The except clauses of lines 369-372, in order.
CaughtAsJson(exc) == exc # NoError /\ "json.JSONDecodeError" \in Classes(exc)
CaughtAsConnection(exc) ==
    exc # NoError /\ ~CaughtAsJson(exc) /\ "ConnectionError" \in Classes(exc)
Retried(exc) == CaughtAsJson(exc) \/ CaughtAsConnection(exc)

\* Lines 350-357.
upload_records_enter ==
    /\ upPc = "call"
    /\ left_bound' = 0
    /\ right_bound' = NextRight(0, chunk_size, Len(records))
    /\ upPc' = "while"
    /\ UNCHANGED <<records, chunk_size, report_chunk, record_count, upCalls,
                   upErr, upSlept, upRetries, notUp>>

\* Lines 358-363, and line 373 when the loop ends.
upload_records_while ==
    /\ upPc = "while"
    /\ IF left_bound # right_bound
       THEN /\ report_chunk' = <<left_bound + 1, right_bound>>
            /\ record_count' = RecordCount(right_bound, Len(records))
            /\ left_bound' = right_bound
            /\ right_bound' = NextRight(right_bound, chunk_size, Len(records))
            /\ upPc' = "try"
       ELSE /\ upPc' = "done"
            /\ UNCHANGED <<report_chunk, record_count, left_bound, right_bound>>
    /\ UNCHANGED <<records, chunk_size, upCalls, upErr, upSlept, upRetries,
                   notUp>>

\* Lines 364-372: one pass of the inner loop, with the call of
\* _upload_record_chunk (lines 385-398) it makes.  r is what find_resource_id
\* gives, p what the datastore_upsert request gives if it is sent.
upload_record_chunk(r, p) ==
    /\ upPc = "try"
    /\ (UpsertSent(r) \/ p = "success")
    /\ LET exc == ChunkRaises(r, p) IN
        /\ (Retried(exc) => upRetries < MaxRetries)
        /\ upCalls' = Append(upCalls,
               [chunk |-> report_chunk, flag |-> record_count, resolved |-> r,
                sent |-> UpsertSent(r),
                resource_id |-> IF UpsertSent(r) THEN r ELSE NoneId,
                raised |-> exc])
        /\ upRetries' = IF Retried(exc) THEN upRetries + 1 ELSE upRetries
        /\ upSlept' = IF CaughtAsConnection(exc)
                      THEN upSlept + UploadCooldown ELSE upSlept
        /\ upPc' = IF exc = NoError THEN "while"
                   ELSE IF Retried(exc) THEN "try" ELSE "raised"
        /\ upErr' = IF exc = NoError \/ Retried(exc) THEN upErr ELSE exc
    /\ UNCHANGED <<records, chunk_size, left_bound, right_bound, report_chunk,
                   record_count, notUp>>

\* A run that never uploads.
UpIdle ==
    /\ records = <<>>
    /\ chunk_size = 1
    /\ left_bound = 0
    /\ right_bound = 0
    /\ report_chunk = <<1, 0>>
    /\ record_count = FALSE
    /\ upPc = "off"
    /\ upCalls = <<>>
    /\ upErr = NoError
    /\ upSlept = 0
    /\ upRetries = 0

\* _upload_records is called with N records, record i being i, and a chunk
\* size of at least 1.
UpInit ==
    /\ \E n \in 0..MaxRecords : records = [i \in 1..n |-> i]
    /\ chunk_size \in 1..MaxChunk
    /\ left_bound = 0
    /\ right_bound = 0
    /\ report_chunk = <<1, 0>>
    /\ record_count = FALSE
    /\ upPc = "call"
    /\ upCalls = <<>>
    /\ upErr = NoError
    /\ upSlept = 0
    /\ upRetries = 0

UpNext ==
    \/ upload_records_enter
    \/ upload_records_while
    \/ \E r \in ResolveOutcomes, p \in PostOutcomes : upload_record_chunk(r, p)

(***************************************************************************)
(* Text.  A string is the sequence of its characters.                      *)
(***************************************************************************)
DigitChars == <<"0", "1", "2", "3", "4", "5", "6", "7", "8", "9">>

\* The code point of a character of a date string.
Ord(c) == IF c = "/" THEN 47
          ELSE 47 + (CHOOSE d \in 1..10 : DigitChars[d] = c)

\* str(n) for a natural number.
RECURSIVE Str(_)
Str(n) == IF n < 10 THEN <<DigitChars[n + 1]>>
          ELSE Str(n \div 10) \o <<DigitChars[(n % 10) + 1]>>

\* The format specification 0>w: zeros on the left up to width w, nothing
\* cut off.
RECURSIVE PadLeft(_, _)
PadLeft(s, w) == IF Len(s) >= w THEN s ELSE PadLeft(<<"0">> \o s, w)

\* Python's < and <= on strings: by the first differing character, a proper
\* prefix being smaller.
RECURSIVE StrLess(_, _)
StrLess(a, b) ==
    IF b = <<>> THEN FALSE
    ELSE IF a = <<>> THEN TRUE
    ELSE IF Head(a) = Head(b) THEN StrLess(Tail(a), Tail(b))
    ELSE Ord(Head(a)) < Ord(Head(b))
StrLeq(a, b) == a = b \/ StrLess(a, b)

(***************************************************************************)
(* The source site                                                         *)
(***************************************************************************)
StationIds == 1..MaxStations
\* The display name of a station, as the site's pages give it.
StationName(id) == <<"s", "t", "a", "t", "i", "o", "n", " ">> \o Str(id)
\* The only cell of the page the site shows for a station-day without data.
Sentinel == <<"n", "o", " ", "r", "e", "c", "o", "r", "d", "s">>

\* A calendar date <<year, month, day>>; NaN for a station whose page cell
\* holds no date.
NaN == <<>>
EstDates == {<<1401, 6, 15>>, <<1402, 1, 1>>}

\* Dates in the order of the calendar.
OnOrBefore(a, b) ==
    \/ a[1] < b[1]
    \/ a[1] = b[1] /\ a[2] < b[2]
    \/ a[1] = b[1] /\ a[2] = b[2] /\ a[3] <= b[3]

\* The site writes dates as YYYY/MM/DD, month and day in two digits.
TwoDigits(n) == <<DigitChars[(n \div 10) + 1], DigitChars[(n % 10) + 1]>>
SiteDate(d) == Str(d[1]) \o <<"/">> \o TwoDigits(d[2]) \o <<"/">> \o TwoDigits(d[3])

\* The stationInfo page: the given stations, in ascending or descending
\* order of ID, each with an establishment date or none.
Catalogs(ids) ==
    LET n == Cardinality(ids)
        lowest == CHOOSE k \in ids : \A j \in ids : k <= j
    IN  { [i \in 1..n |->
              [ID |-> IF up THEN lowest + i - 1 ELSE lowest + n - i,
               est |-> est[i]]] :
          up \in BOOLEAN, est \in [1..n -> EstDates \cup {NaN}] }

\* The table of one station-day, after _extract_table and
\* _clean_input_table: the hourly rows, or the single sentinel row.
StationTable(id, date, hours) ==
    IF hours = 0
    THEN <<[Station |-> Sentinel, Date |-> <<>>, Hour |-> <<>>]>>
    ELSE [h \in 1..hours |->
             [Station |-> StationName(id), Date |-> date, Hour |-> Str(h - 1)]]

(***************************************************************************)
(* Pollution: get_data_by_day, get_data_by_month                           *)
(***************************************************************************)
\* self.stations_info: None, or the table get_stations_info returned.
NotFetched == [fetched |-> FALSE, rows |-> <<>>]
Fetched(rows) == [fetched |-> TRUE, rows |-> rows]
\* A walker's result: None, or a table (a sequence of rows).
None == [none |-> TRUE, rows |-> <<>>]
Table(rows) == [none |-> FALSE, rows |-> rows]

\* pd.concat(tables, ignore_index=True)
RECURSIVE Concat(_)
Concat(tables) ==
    IF tables = <<>> THEN <<>> ELSE Head(tables) \o Concat(Tail(tables))

\* Lines 147-156: the page's date column as text, indexed by station ID.
StationsInfo(page) ==
    [i \in DOMAIN page |->
        [ID |-> page[i].ID,
         Date_of_Establishment |->
             IF page[i].est = NaN THEN NaN ELSE SiteDate(page[i].est)]]

\* Lines 387 and 430.
DateStringUnpadded(year, month, day) ==
    Str(year) \o <<"/">> \o Str(month) \o <<"/">> \o Str(day)
DateString(year, month, day) ==
    Str(year) \o <<"/">> \o PadLeft(Str(month), 2) \o <<"/">>
        \o PadLeft(Str(day), 2)

\* Lines 391-392: the IDs of the stations whose date of establishment is, as
\* a string, at most the date; a missing date compares False.
EstablishedBy(entry, date) ==
    /\ entry.Date_of_Establishment # NaN
    /\ StrLeq(entry.Date_of_Establishment, date)

AvailableStations(info, date) ==
    LET Ok(entry) == EstablishedBy(entry, date)
        kept == SelectSeq(info, Ok)
    IN  [i \in DOMAIN kept |-> kept[i].ID]

\* Line 396.
KeepsEveryTable(station_table) == FALSE
IsSentinelTable(station_table) == station_table[1].Station = Sentinel

\* Lines 387-402, given self.stations_info and, per station ID, the number
\* of hourly rows the site has for the day.
DayWalk(info, hoursOf, year, month, day) ==
    LET date == DateString(year, month, day)
        available_stations == AvailableStations(info, date)
        tables == [i \in DOMAIN available_stations |->
                      StationTable(available_stations[i], date,
                                   hoursOf[available_stations[i]])]
        Kept(t) == ~IsSentinelTable(t)
        station_tables == SelectSeq(tables, Kept)
    IN  [requests |-> [i \in DOMAIN available_stations |->
                          [station |-> Str(available_stations[i]),
                           date |-> date]],
         result |-> IF Len(station_tables) = 0 THEN None
                    ELSE Table(Concat(station_tables))]

\* Lines 342-347.
MaxDayGregorian(year, month) ==
    IF month <= 6 THEN 31
    ELSE IF (month <= 11) \/ (year % 4 = 3) THEN 30
    ELSE 29
MaxDay(year, month) ==
    IF month <= 6 THEN 31
    ELSE IF (month <= 11) \/ (year % 33 \in {1, 5, 9, 13, 17, 22, 26, 30})
    THEN 30
    ELSE 29

\* Lines 349-358, given what the site has for each day of the month.
MonthWalk(info, site, year, month) ==
    LET days == [d \in 1..MaxDay(year, month) |-> d]
        walks == [d \in DOMAIN days |-> DayWalk(info, site[d], year, month, d)]
        Found(w) == ~w.result.none
        found == SelectSeq(walks, Found)
        day_tables == [i \in DOMAIN found |-> found[i].result.rows]
    IN  [days |-> days,
         requests |-> Concat([d \in DOMAIN walks |-> walks[d].requests]),
         result |-> IF Len(day_tables) = 0 THEN None
                    ELSE Table(Concat(day_tables))]

\* Line 307.
SkipsNoMonth(month_table) == FALSE
SkipsMonth(month_table) == month_table.none

\* Lines 304-313, given what the site has for each month and day of the year.
YearWalk(info, site, year) ==
    LET walks == [m \in 1..12 |-> MonthWalk(info, site[m], year, m)]
        Found(w) == ~SkipsMonth(w.result)
        found == SelectSeq(walks, Found)
        month_tables == [i \in DOMAIN found |-> found[i].result.rows]
    IN  [days |-> Concat([m \in DOMAIN walks |-> walks[m].days]),
         requests |-> Concat([m \in DOMAIN walks |-> walks[m].requests]),
         result |-> IF Len(month_tables) = 0 THEN None
                    ELSE Table(Concat(month_tables))]

\* Lines 389-390: the page is fetched, and upserted into the Stations table
\* (lines 157-158), only while self.stations_info is None.
InfoAfter == IF ~stations_info.fetched
             THEN Fetched(StationsInfo(siteStations))
             ELSE stations_info
StoredAfter ==
    IF ~stations_info.fetched
    THEN {siteStations[i].ID : i \in DOMAIN siteStations}
    ELSE {}

\* Lines 360-402.
get_data_by_day ==
    /\ wlkPc = "call"
    /\ wlkArgs.walker = "day"
    /\ LET w == DayWalk(InfoAfter.rows, wlkSite[wlkArgs.day], wlkArgs.year,
                        wlkArgs.month, wlkArgs.day)
       IN  /\ wlkResult' = w.result
           /\ wlkRequests' = w.requests
           /\ wlkDays' = <<wlkArgs.day>>
    /\ stations_info' = InfoAfter
    /\ wlkStored' = StoredAfter
    /\ wlkPc' = "returned"
    /\ UNCHANGED <<siteStations, wlkArgs, wlkSite, notWlk>>

\* Lines 315-358, with the calls of get_data_by_day it makes.
get_data_by_month ==
    /\ wlkPc = "call"
    /\ wlkArgs.walker = "month"
    /\ LET w == MonthWalk(InfoAfter.rows, wlkSite, wlkArgs.year, wlkArgs.month)
       IN  /\ wlkResult' = w.result
           /\ wlkRequests' = w.requests
           /\ wlkDays' = w.days
    /\ stations_info' = InfoAfter
    /\ wlkStored' = StoredAfter
    /\ wlkPc' = "returned"
    /\ UNCHANGED <<siteStations, wlkArgs, wlkSite, notWlk>>

\* Lines 280-313, with the calls of get_data_by_month it makes.  For a year
\* query wlkSite is month -> day -> station ID -> number of hourly rows.
get_data_by_year ==
    /\ wlkPc = "call"
    /\ wlkArgs.walker = "year"
    /\ LET w == YearWalk(InfoAfter.rows, wlkSite, wlkArgs.year)
       IN  /\ wlkResult' = w.result
           /\ wlkRequests' = w.requests
           /\ wlkDays' = w.days
    /\ stations_info' = InfoAfter
    /\ wlkStored' = StoredAfter
    /\ wlkPc' = "returned"
    /\ UNCHANGED <<siteStations, wlkArgs, wlkSite, notWlk>>

\* The days a month can have.
MonthDays == 1..31
NoData == [d \in MonthDays |-> [id \in StationIds |-> 0]]

\* A run that never walks the grid.
WlkIdle ==
    /\ siteStations = <<>>
    /\ stations_info = NotFetched
    /\ wlkArgs = [walker |-> "none", year |-> 0, month |-> 0, day |-> 0]
    /\ wlkSite = <<>>
    /\ wlkPc = "off"
    /\ wlkResult = None
    /\ wlkRequests = <<>>
    /\ wlkDays = <<>>
    /\ wlkStored = {}

\* The walker before a query: the page is fetched already or not.
WlkFresh ==
    /\ stations_info \in {NotFetched, Fetched(StationsInfo(siteStations))}
    /\ wlkPc = "call"
    /\ wlkResult = None
    /\ wlkRequests = <<>>
    /\ wlkDays = <<>>
    /\ wlkStored = {}

\* A day query: any catalog of the stations, a date around the dates of
\* establishment, and for each station no data or some hourly rows.
DayQueryDates == (1401..1402) \X {1, 6} \X {1, 15}
DayInit ==
    /\ siteStations \in Catalogs(StationIds)
    /\ \E date \in DayQueryDates :
          /\ wlkArgs = [walker |-> "day", year |-> date[1],
                        month |-> date[2], day |-> date[3]]
          /\ \E hoursOf \in [StationIds -> 0..MaxHours] :
                wlkSite = [d \in MonthDays |->
                              IF d = date[3] THEN hoursOf ELSE NoData[d]]
    /\ WlkFresh

\* A month query: any month of YearCount successive years, on a site with one
\* station that has data for day 1, for day 30, for both or for neither.
GridStationIds == {1}
GridYears == FirstYear..(FirstYear + YearCount - 1)
GridDataDays == {1, 30}
MonthInit ==
    /\ siteStations \in Catalogs(GridStationIds)
    /\ \E y \in GridYears, m \in 1..12 :
          wlkArgs = [walker |-> "month", year |-> y, month |-> m, day |-> 0]
    /\ \E cells \in SUBSET (GridDataDays \X GridStationIds) :
          wlkSite = [d \in MonthDays |-> [id \in StationIds |->
                        IF <<d, id>> \in cells THEN 1 ELSE 0]]
    /\ WlkFresh

\* A year query: a year with a 29-day or a 30-day last month, on a site with
\* one station that has data on any of four days of the year.
YearQueryYears == {1401, 1403}
YearDataDays == {<<1, 1>>, <<6, 15>>, <<12, 29>>, <<12, 30>>}
YearSite(cells) ==
    [m \in 1..12 |-> [d \in MonthDays |-> [id \in StationIds |->
        IF <<m, d>> \in cells /\ id \in GridStationIds THEN 1 ELSE 0]]]
YearInit ==
    /\ siteStations \in Catalogs(GridStationIds)
    /\ \E y \in YearQueryYears :
          wlkArgs = [walker |-> "year", year |-> y, month |-> 0, day |-> 0]
    /\ \E cells \in SUBSET YearDataDays : wlkSite = YearSite(cells)
    /\ WlkFresh

WlkInit == DayInit \/ MonthInit \/ YearInit

WlkNext ==
    \/ get_data_by_day
    \/ get_data_by_month
    \/ get_data_by_year

(***************************************************************************)
(* Pollution._clean_output_table                                           *)
(***************************************************************************)
DigitValue(c) == (CHOOSE d \in 1..10 : DigitChars[d] = c) - 1

\* int(s) for a string of digits.
RECURSIVE ParseInt(_)
ParseInt(s) ==
    IF Len(s) = 1 THEN DigitValue(s[1])
    ELSE 10 * ParseInt(SubSeq(s, 1, Len(s) - 1)) + DigitValue(s[Len(s)])

\* row.Date.replace('/', '')
RemoveSlashes(s) == LET NotSlash(c) == c # "/" IN SelectSeq(s, NotSlash)

\* Lines 465-469: Series.map gives a name's ID, and NaN for a name that is
\* no station option.
MappedStation(ids, name) ==
    IF \E id \in ids : StationName(id) = name
    THEN [nan |-> FALSE, id |-> CHOOSE id \in ids : StationName(id) = name]
    ELSE [nan |-> TRUE, id |-> 0]

\* str(row.Station): the column holds integers, or floats once one of its
\* values is NaN.
StationText(m, float) ==
    IF m.nan THEN <<"n", "a", "n">>
    ELSE IF float THEN Str(m.id) \o <<".", "0">>
    ELSE Str(m.id)

\* Line 473.
CompositeKeyUnpadded(date, hour, station) ==
    RemoveSlashes(date) \o Str(hour) \o station
CompositeKey(date, hour, station) ==
    RemoveSlashes(date) \o PadLeft(Str(hour), 2) \o PadLeft(station, 3)

\* Lines 464-476: the station IDs, the integer hours and the index.
CleanOutputTable(ids, tbl) ==
    LET mapped == [i \in DOMAIN tbl |-> MappedStation(ids, tbl[i].Station)]
        float == \E i \in DOMAIN tbl : mapped[i].nan
    IN  [i \in DOMAIN tbl |->
            [ID |-> CompositeKey(tbl[i].Date, ParseInt(tbl[i].Hour),
                                 StationText(mapped[i], float)),
             Date |-> tbl[i].Date,
             Hour |-> ParseInt(tbl[i].Hour),
             Station |-> mapped[i]]]

clean_output_table ==
    /\ keyPc = "call"
    /\ keyOut' = CleanOutputTable(stations, keyTable)
    /\ keyPc' = "returned"
    /\ UNCHANGED <<stations, keyCells, keyTable, notKey>>

\* A run that never cleans a table.
KeyIdle ==
    /\ stations = {}
    /\ keyCells = <<>>
    /\ keyTable = <<>>
    /\ keyPc = "off"
    /\ keyOut = <<>>

\* The table holds two rows of the site, each for a date, an hour of the day
\* and one of the station options; the second row is the first again or a
\* later one (by date, then hour, then station).
KeyDates == {<<1402, 2, 1>>, <<1402, 12, 10>>}
KeyHours == 0..23
KeyStationIds == (1..KeyMaxStation) \cup {100, 999}
KeyInit ==
    /\ stations = KeyStationIds
    /\ keyCells \in [1..2 -> KeyDates \X KeyHours \X KeyStationIds]
    /\ \/ keyCells[1][1] # keyCells[2][1]
          /\ OnOrBefore(keyCells[1][1], keyCells[2][1])
       \/ keyCells[1][1] = keyCells[2][1] /\ keyCells[1][2] < keyCells[2][2]
       \/ /\ keyCells[1][1] = keyCells[2][1]
          /\ keyCells[1][2] = keyCells[2][2]
          /\ keyCells[1][3] <= keyCells[2][3]
    /\ keyTable = [i \in 1..2 |->
           [Station |-> StationName(keyCells[i][3]),
            Date |-> SiteDate(keyCells[i][1]),
            Hour |-> Str(keyCells[i][2])]]
    /\ keyPc = "call"
    /\ keyOut = <<>>

KeyNext == clean_output_table

\* A table whose rows may carry the display name of a station that is not
\* among the station options: the names of the hourly pages and the options
\* of the archive page come from different requests.
ListedStationIds == {1, 21}
UnlistedStationIds == {500}
UnlistedHours == {0, 5, 23}
UnlistedInit ==
    /\ stations = ListedStationIds
    /\ keyCells \in [1..2 -> KeyDates \X UnlistedHours
                             \X (ListedStationIds \cup UnlistedStationIds)]
    /\ keyTable = [i \in 1..2 |->
           [Station |-> StationName(keyCells[i][3]),
            Date |-> SiteDate(keyCells[i][1]),
            Hour |-> Str(keyCells[i][2])]]
    /\ keyPc = "call"
    /\ keyOut = <<>>

(***************************************************************************)
(* Pollution.get_data and Pollution.upsert_data                            *)
(***************************************************************************)
\* The optional arguments of a query; those that are not None are "given".
OptionalArgs == {"month", "day", "station"}

\* Lines 268-275: the walker get_data calls.
DispatchNoDayLevel(given) ==
    IF "month" \notin given THEN "year"
    ELSE IF "station" \notin given THEN "month"
    ELSE "station"
Dispatch(given) ==
    IF "month" \notin given THEN "year"
    ELSE IF "day" \notin given THEN "month"
    ELSE IF "station" \notin given THEN "day"
    ELSE "station"

\* Lines 429-434: one request, and the table of its answer.
StationWalk(site, year, month, day, station) ==
    LET date == DateString(year, month, day)
    IN  [days |-> <<>>,
         requests |-> <<[station |-> Str(station), date |-> date]>>,
         result |-> Table(StationTable(station, date,
                                       site[month][day][station]))]

\* Lines 268-275, given the site as month -> day -> station ID -> rows.
Walk(args, info, site) ==
    CASE Dispatch(args.given) = "year" -> YearWalk(info, site, args.year)
      [] Dispatch(args.given) = "month" ->
             MonthWalk(info, site[args.month], args.year, args.month)
      [] Dispatch(args.given) = "day" ->
             LET w == DayWalk(info, site[args.month][args.day], args.year,
                              args.month, args.day)
             IN  [days |-> <<args.day>>, requests |-> w.requests,
                  result |-> w.result]
      [] Dispatch(args.given) = "station" ->
             StationWalk(site, args.year, args.month, args.day, args.station)

\* get_data_by_station does not read self.stations_info.
ReadsStationsInfo(args) == Dispatch(args.given) # "station"

\* What _clean_output_table can raise on the sentinel table, whose only row
\* has no hour and no date: which of them depends on the page's cells.
SentinelCleanErrors == {"TypeError", "ValueError", "KeyError"}

\* Lines 469-470: what _clean_output_table can raise, NoError if it returns.
\* None has no item "Station": line 469 raises TypeError.
CleanRaises(result) ==
    IF result.none THEN {"TypeError"}
    ELSE IF IsSentinelTable(result.rows) THEN SentinelCleanErrors
    ELSE {NoError}

\* Lines 268-278: the walker get_data calls and _clean_output_table; with
\* upsert, also line 221, which is reached unless get_data raised.
GetData(upsert) ==
    \E info \in {IF ReadsStationsInfo(wlkArgs) THEN InfoAfter
                 ELSE stations_info} :
    \E w \in {Walk(wlkArgs, info.rows, wlkSite)} :
    \E err \in CleanRaises(w.result) :
    \E out \in {IF err = NoError
                THEN CleanOutputTable(stations, w.result.rows) ELSE <<>>} :
        /\ stations_info' = info
        /\ wlkStored' = IF ReadsStationsInfo(wlkArgs) THEN StoredAfter ELSE {}
        /\ wlkDays' = w.days
        /\ wlkRequests' = w.requests
        /\ wlkResult' = w.result
        /\ dataErr' = err
        /\ dataOut' = out
        /\ dataUpserts' = IF upsert /\ err = NoError
                          THEN <<[i \in DOMAIN out |-> out[i].ID]>>
                          ELSE <<>>

\* Lines 223-278.
get_data ==
    /\ wlkPc = "call"
    /\ wlkArgs.walker = "get_data"
    /\ GetData(FALSE)
    /\ wlkPc' = "returned"
    /\ UNCHANGED <<siteStations, wlkArgs, wlkSite, notData>>

\* Lines 185-221: get_data, then upsert_results("Pollution", data).
upsert_data ==
    /\ wlkPc = "call"
    /\ wlkArgs.walker = "upsert_data"
    /\ GetData(TRUE)
    /\ wlkPc' = "returned"
    /\ UNCHANGED <<siteStations, wlkArgs, wlkSite, notData>>

\* A query through get_data or upsert_data: a year, and any of the optional
\* arguments; the site has one station with data on any of two days.
DataYears == {1401, 1403}
DataMonths == {6, 12}
DataDays == {15, 29}
DataCells == {<<6, 15>>, <<12, 29>>}
DataInit ==
    /\ stations = StationIds
    /\ keyCells = <<>>
    /\ keyTable = <<>>
    /\ keyPc = "off"
    /\ keyOut = <<>>
    /\ siteStations \in Catalogs(GridStationIds)
    /\ \E entry \in {"get_data", "upsert_data"}, y \in DataYears,
          given \in SUBSET OptionalArgs, m \in DataMonths, d \in DataDays,
          st \in StationIds :
          \* without a month the other arguments do not matter: one value
          /\ "month" \notin given => (d = 15 /\ st = 1)
          /\ wlkArgs = [walker |-> entry, year |-> y, given |-> given,
                     month |-> IF "month" \in given THEN m ELSE 0,
                     day |-> IF "day" \in given THEN d ELSE 0,
                     station |-> IF "station" \in given THEN st ELSE 0]
    /\ \E cells \in SUBSET DataCells : wlkSite = YearSite(cells)
    /\ WlkFresh
    /\ dataErr = NoError
    /\ dataOut = <<>>
    /\ dataUpserts = <<>>

DataNext ==
    \/ get_data
    \/ upsert_data

(***************************************************************************)
(* _AirNow: the request state and the sessions                             *)
(***************************************************************************)
\* The hidden inputs a page of the site can carry (delcfrm and btnfrm are
\* dropped, lines 87-88), and the form parameters of a station-day request.
HiddenNames == {"__VIEWSTATE", "__EVENTVALIDATION"}
FormNames == {"ddlStation", "pddFrom"}
FieldNames == HiddenNames \cup FormNames
\* The days a request can ask for in this component, as day numbers.
SesDays == {1, 2}

\* dict.update: the keys of the update take its values, the others stay.
DictUpdate(dict, keys, value) ==
    [n \in DOMAIN dict |-> IF n \in keys THEN value ELSE dict[n]]

\* Lines 71-89 and 181-183: a Pollution object is constructed.  The server
\* gives the session a cookie of its own, and a page whose hidden inputs
\* (those named in hidden) carry values of that session; a value is written
\* here as the number of the session it belongs to, 0 for a missing key.
\* self._headers and self._data are the dicts of the class (lines 47, 65).
setup_session(hidden) ==
    /\ Len(sesOpened) < MaxSessions
    /\ LET s == Len(sesOpened) + 1
       IN  /\ headers_Cookie' = s
           /\ data' = DictUpdate(data, hidden, s)
           /\ sesPage' = Append(sesPage, hidden)
           /\ sesOpened' = Append(sesOpened, s)
    /\ UNCHANGED <<sesSent, notSes>>

\* Lines 436-449: session object s requests a station-day.
request_hourly_data(s, station, day) ==
    /\ s \in DOMAIN sesOpened
    /\ Len(sesSent) < MaxRequests
    /\ LET sent == [n \in FieldNames |->
                       IF n = "ddlStation" THEN station
                       ELSE IF n = "pddFrom" THEN day
                       ELSE data[n]]
       IN  /\ data' = sent
           /\ sesSent' = Append(sesSent,
                  [session |-> s, station |-> station, day |-> day,
                   Cookie |-> headers_Cookie, data |-> sent])
    /\ UNCHANGED <<headers_Cookie, sesPage, sesOpened, notSes>>

\* The class right after the module is imported (lines 47-67).
SesInit ==
    /\ headers_Cookie = 0
    /\ data = [n \in FieldNames |-> 0]
    /\ sesPage = <<>>
    /\ sesOpened = <<>>
    /\ sesSent = <<>>

SesNext ==
    \/ \E hidden \in SUBSET HiddenNames : setup_session(hidden)
    \/ \E s \in 1..MaxSessions, station \in StationIds, day \in SesDays :
          request_hourly_data(s, station, day)

(***************************************************************************)
(* scheduler.py: the loop of __main__, hourly_update, get_and_upload_data  *)
(***************************************************************************)
\* Line 40 and line 44.
ScrapeAttempts == 3
ScrapeCooldown == 300

\* ping (lines 17-28): the request goes through on one of the tries
\* ("sent"), every try ends in ReadTimeout and ping returns False
\* ("gave up"), or a try raises another exception, which ping does not catch.
PingOutcomes == {"sent", "gave up", "requests.ConnectionError"}
PingRaises(p) == p \notin {"sent", "gave up"}

\* One pass of the loop of lines 40-47: Pollution() and upsert_data complete,
\* or one of them raises: a timeout of the site while reading or while
\* connecting, another failure of the connection, or the TypeError of a day
\* without data.
AttemptOutcomes ==
    {"completed", "requests.ReadTimeout", "requests.ConnectTimeout",
     "requests.ConnectionError", "TypeError"}
\* The attempts that end because the site did not answer within the timeout
\* of the request (requests.exceptions.Timeout).
TimedOut == {"requests.ReadTimeout", "requests.ConnectTimeout"}

\* Line 43: the except clause of the loop.
CaughtByLoop(o) == o = "requests.ReadTimeout"

\* Line 46: the class Ckan has no method add_recordes_from_database (its
\* method is add_recordes, src/src/data_handler.py:329), so the call raises.
UploadCallRaises == "AttributeError"

\* Lines 53-58 of hourly_update, when the trigger of line 74 fires in
\* run_pending (line 81) or run_all (line 79), and lines 33-39 of
\* get_and_upload_data.
hourly_update_start(p) ==
    /\ schPc = "loop"
    /\ schRuns < MaxRuns
    /\ schRuns' = schRuns + 1
    /\ schJob' = "hourly_update"
    /\ schPings' = IF p = "sent" THEN <<"start">> ELSE <<>>
    /\ schAttempts' = <<>>
    /\ schSessions' = 0
    /\ schSlept' = 0
    /\ schUploads' = 0
    /\ schReturn' = "none"
    /\ schPc' = IF PingRaises(p) THEN "crashed" ELSE "attempts"
    /\ schErr' = IF PingRaises(p) THEN p ELSE schErr
    /\ UNCHANGED notSch

\* Lines 40-48: one pass of the loop, with the upload call of line 46 and
\* the return that follows the pass.
get_and_upload_attempt(o) ==
    /\ schPc = "attempts"
    /\ Len(schAttempts) < ScrapeAttempts
    /\ schAttempts' = Append(schAttempts, o)
    /\ schSessions' = schSessions + 1
    /\ schSlept' = IF o # "completed" /\ CaughtByLoop(o)
                   THEN schSlept + ScrapeCooldown ELSE schSlept
    /\ schUploads' = IF o = "completed" THEN schUploads + 1 ELSE schUploads
    /\ IF o = "completed"
       THEN /\ schPc' = "crashed"
            /\ schErr' = UploadCallRaises
            /\ schReturn' = schReturn
       ELSE IF ~CaughtByLoop(o)
       THEN /\ schPc' = "crashed"
            /\ schErr' = o
            /\ schReturn' = schReturn
       ELSE IF Len(schAttempts) + 1 = ScrapeAttempts
       THEN /\ schPc' = "returned"
            /\ schReturn' = "False"
            /\ schErr' = schErr
       ELSE UNCHANGED <<schPc, schErr, schReturn>>
    /\ UNCHANGED <<schJob, schPings, schRuns, notSch>>

\* Lines 59-63: the ping that ends hourly_update.
hourly_update_end(p) ==
    /\ schPc = "returned"
    /\ schJob = "hourly_update"
    /\ schPings' = IF p = "sent"
                   THEN Append(schPings, IF schReturn = "True" THEN "success"
                                         ELSE "fail")
                   ELSE schPings
    /\ schPc' = IF PingRaises(p) THEN "crashed" ELSE "run pinged"
    /\ schErr' = IF PingRaises(p) THEN p ELSE schErr
    /\ UNCHANGED <<schJob, schAttempts, schSessions, schSlept, schUploads,
                   schReturn, schRuns, notSch>>

\* Lines 66-70 of daily_update, when the trigger of line 75 fires, and lines
\* 33-39 of get_and_upload_data.
daily_update_start ==
    /\ schPc = "loop"
    /\ schRuns < MaxRuns
    /\ schRuns' = schRuns + 1
    /\ schJob' = "daily_update"
    /\ schPings' = <<>>
    /\ schAttempts' = <<>>
    /\ schSessions' = 0
    /\ schSlept' = 0
    /\ schUploads' = 0
    /\ schReturn' = "none"
    /\ schPc' = "attempts"
    /\ UNCHANGED <<schErr, notSch>>

\* Line 70: daily_update drops what get_and_upload_data returned.
daily_update_end ==
    /\ schPc = "returned"
    /\ schJob = "daily_update"
    /\ schPc' = "run pinged"
    /\ UNCHANGED <<schJob, schPings, schAttempts, schSessions, schSlept,
                   schUploads, schReturn, schErr, schRuns, notSch>>

\* Lines 82-83: ping(RUN_URL) and the sleep, after run_pending returned.
main_loop_ping(p) ==
    /\ schPc = "run pinged"
    /\ schPc' = IF PingRaises(p) THEN "crashed" ELSE "loop"
    /\ schErr' = IF PingRaises(p) THEN p ELSE schErr
    /\ UNCHANGED <<schJob, schPings, schAttempts, schSessions, schSlept,
                   schUploads, schReturn, schRuns, notSch>>

\* The process enters the loop of __main__.
SchInit ==
    /\ schPc = "loop"
    /\ schJob = "none"
    /\ schPings = <<>>
    /\ schAttempts = <<>>
    /\ schSessions = 0
    /\ schSlept = 0
    /\ schUploads = 0
    /\ schReturn = "none"
    /\ schErr = NoError
    /\ schRuns = 0

SchNext ==
    \/ \E p \in PingOutcomes : hourly_update_start(p)
    \/ \E o \in AttemptOutcomes : get_and_upload_attempt(o)
    \/ \E p \in PingOutcomes : hourly_update_end(p)
    \/ daily_update_start
    \/ daily_update_end
    \/ \E p \in PingOutcomes : main_loop_ping(p)

(***************************************************************************)
(* cli.py: build_id_filter_query, and the rows its filter selects          *)
(***************************************************************************)
\* Lines 38-50.  argparse hands the arguments over as strings of digits.
BuildIdFilterQuery(args) ==
    Str(args.year)
    \o (IF "month" \in args.given THEN PadLeft(Str(args.month), 2)
        ELSE <<"_", "_">>)
    \o (IF "day" \in args.given THEN PadLeft(Str(args.day), 2)
        ELSE <<"_", "_">>)
    \o (IF "station" \in args.given THEN PadLeft(Str(args.station), 3)
        ELSE <<"_", "_", "_">>)
    \o <<"%">>

\* The LIKE operator of the WHERE clause (src/src/data_handler.py, lines
\* 189-191): "_" stands for any one character, "%" for any characters.
RECURSIVE Like(_, _)
Like(text, pattern) ==
    IF pattern = <<>> THEN text = <<>>
    ELSE IF Head(pattern) = "%"
    THEN \/ Like(text, Tail(pattern))
         \/ text # <<>> /\ Like(Tail(text), pattern)
    ELSE /\ text # <<>>
         /\ Head(pattern) = "_" \/ Head(pattern) = Head(text)
         /\ Like(Tail(text), Tail(pattern))

\* The ID of a stored row (src/src/airnow.py, line 473).
StoredId(cell) == CompositeKey(SiteDate(cell[1]), cell[2], Str(cell[3]))

\* Line 79 of cli.py.
build_id_filter_query ==
    /\ fltPc = "call"
    /\ fltQuery' = BuildIdFilterQuery(fltArgs)
    /\ fltPc' = "built"
    /\ UNCHANGED <<fltArgs, fltStored, fltSelected, notFlt>>

\* DatabaseManager.get_data("Pollution", filt): SELECT * FROM Pollution
\* WHERE ID LIKE '...' (src/src/data_handler.py, lines 189-194).
select_filtered ==
    /\ fltPc = "built"
    /\ fltSelected' = {cell \in fltStored : Like(StoredId(cell), fltQuery)}
    /\ fltPc' = "returned"
    /\ UNCHANGED <<fltArgs, fltStored, fltQuery, notFlt>>

\* The command line gives a year and any of month, day and station; the
\* Pollution table holds any of four rows.
FltYears == {1402}
FltMonths == {2, 12}
FltDays == {1, 10}
FltStations == {1, 21, 102}
FltRows == {<<<<1402, 2, 1>>, 5, 21>>, <<<<1402, 2, 1>>, 2, 102>>,
            <<<<1402, 12, 10>>, 0, 1>>, <<<<1402, 12, 10>>, 23, 21>>}
FltInit ==
    /\ \E y \in FltYears, given \in SUBSET OptionalArgs, m \in FltMonths,
          d \in FltDays, st \in FltStations :
          fltArgs = [year |-> y, given |-> given,
                     month |-> IF "month" \in given THEN m ELSE 0,
                     day |-> IF "day" \in given THEN d ELSE 0,
                     station |-> IF "station" \in given THEN st ELSE 0]
    /\ fltStored \in SUBSET FltRows
    /\ fltQuery = <<>>
    /\ fltSelected = {}
    /\ fltPc = "call"

FltNext ==
    \/ build_id_filter_query
    \/ select_filtered

(***************************************************************************)
(* The components at rest                                                  *)
(***************************************************************************)
\* A run that never calls get_data.
DataIdle ==
    /\ dataErr = NoError
    /\ dataOut = <<>>
    /\ dataUpserts = <<>>

\* A run that opens no session.
SesIdle ==
    /\ headers_Cookie = 0
    /\ data = <<>>
    /\ sesPage = <<>>
    /\ sesOpened = <<>>
    /\ sesSent = <<>>

\* A run outside the scheduler.
SchIdle ==
    /\ schPc = "off"
    /\ schJob = "none"
    /\ schPings = <<>>
    /\ schAttempts = <<>>
    /\ schSessions = 0
    /\ schSlept = 0
    /\ schUploads = 0
    /\ schReturn = "none"
    /\ schErr = NoError
    /\ schRuns = 0

\* A run that builds no filter.
FltIdle ==
    /\ fltArgs = <<>>
    /\ fltStored = {}
    /\ fltQuery = <<>>
    /\ fltSelected = {}
    /\ fltPc = "off"

Rest == DataIdle /\ SesIdle /\ SchIdle /\ FltIdle

(***************************************************************************)
(* Specifications                                                          *)
(***************************************************************************)
InitDb == DbInit /\ UpIdle /\ WlkIdle /\ KeyIdle /\ Rest
SpecDb == InitDb /\ [][DbNext]_vars

InitUpload == UpInit /\ DbIdle /\ WlkIdle /\ KeyIdle /\ Rest
SpecUpload == InitUpload /\ [][UpNext]_vars

\* _upload_records runs on: a step of the loop that can be taken is taken,
\* and a chunk upload that is tried again and again succeeds at some time.
\* Nothing makes an upload fail, and nothing bounds how often it fails: past
\* the MaxRetries failures the model records, one more failure of the same
\* chunk changes nothing and is a stuttering step.
UploadSucceeds == \E r \in ResourceIds : upload_record_chunk(r, "success")
UploadFairness ==
    /\ WF_vars(upload_records_enter)
    /\ WF_vars(upload_records_while)
    /\ WF_vars(UploadSucceeds)
SpecUploadFair == InitUpload /\ [][UpNext]_vars /\ UploadFairness

InitWalk == WlkInit /\ DbIdle /\ UpIdle /\ KeyIdle /\ Rest
SpecWalk == InitWalk /\ [][WlkNext]_vars

InitKey == KeyInit /\ DbIdle /\ UpIdle /\ WlkIdle /\ Rest
SpecKey == InitKey /\ [][KeyNext]_vars

InitUnlisted == UnlistedInit /\ DbIdle /\ UpIdle /\ WlkIdle /\ Rest
SpecUnlisted == InitUnlisted /\ [][KeyNext]_vars

InitSession ==
    SesInit /\ DbIdle /\ UpIdle /\ WlkIdle /\ KeyIdle /\ DataIdle /\ SchIdle /\ FltIdle
SpecSession == InitSession /\ [][SesNext]_vars

InitScheduler ==
    SchInit /\ DbIdle /\ UpIdle /\ WlkIdle /\ KeyIdle /\ DataIdle /\ SesIdle /\ FltIdle
SpecScheduler == InitScheduler /\ [][SchNext]_vars

InitFilter ==
    FltInit /\ DbIdle /\ UpIdle /\ WlkIdle /\ KeyIdle /\ DataIdle /\ SesIdle /\ SchIdle
SpecFilter == InitFilter /\ [][FltNext]_vars

InitData == DataInit /\ DbIdle /\ UpIdle /\ SesIdle /\ SchIdle /\ FltIdle
SpecData == InitData /\ [][DataNext]_vars

(***************************************************************************)
(* Claims                                                                  *)
(***************************************************************************)

\* C1: when upsert_results is called twice in a row with the same row set of
\* distinct IDs, the second call does not fail on the primary key and leaves
\* the table exactly as the first call left it.
C1_UpsertIdempotent ==
    (dbRepeat /\ DistinctIds(dbRows)) =>
        /\ dbPc # "failed"
        /\ (dbPc = "done" => table = dbPrev)

C1_Witness ==
    /\ dbRepeat
    /\ dbPc = "done"
    /\ dbRows # <<>>
    /\ DistinctIds(dbRows)
    /\ \E k \in Keys : k \notin IndexList(dbRows) /\ table[k] # Absent

\* C2: when upsert_results completes, every ID of the row set holds exactly
\* the row given for it and every other ID holds what it held before the
\* call; over any sequence of calls each ID holds the row of the latest call
\* that contained it, as long as that call completed.
C2_UpsertReplacesExactlyGivenKeys ==
    /\ dbPc = "done" =>
          \A k \in Keys :
              table[k] = IF k \in IndexList(dbRows)
                         THEN GivenVal(dbRows, k) ELSE dbPre[k]
    /\ DbAtRest =>
          \A k \in Keys : dbExpect[k] # Unknown => table[k] = dbExpect[k]

C2_Witness ==
    /\ dbPc = "done"
    /\ \E k \in IndexList(dbRows) :
          dbPre[k] # Absent /\ dbPre[k] # table[k]
    /\ \E k \in Keys : k \notin IndexList(dbRows) /\ table[k] # Absent

\* C3: the delete and the insert of upsert_results are one transaction: when
\* the call ends in a crash or a failed insert, no ID that was stored before
\* the call is missing afterwards.
C3_NoKeyLostOnFailure ==
    dbPc \in {"crashed", "failed"} =>
        \A k \in Keys : dbPre[k] # Absent => table[k] # Absent

\* C4: when no chunk upload fails, _upload_records on N records with chunk
\* size C makes exactly ceil(N/C) calls of _upload_record_chunk (none for
\* N = 0), with the record-count flag true on the last call only.
C4_ChunkCallCount ==
    (upPc = "done" /\ \A i \in DOMAIN upCalls : upCalls[i].raised = NoError) =>
        /\ Len(upCalls) = (Len(records) + chunk_size - 1) \div chunk_size
        /\ \A i \in DOMAIN upCalls : upCalls[i].flag = (i = Len(upCalls))

C4_Witness ==
    /\ upPc = "done"
    /\ \A i \in DOMAIN upCalls : upCalls[i].raised = NoError
    /\ Len(upCalls) >= 2
    /\ Len(records) % chunk_size # 0

\* C5: a chunk upload that fails with the HTTP client's connection failure
\* does not leave _upload_records: the loop sleeps the cooldown and the next
\* call uploads the same chunk again.
C5_ConnectionFailureRetried ==
    \A i \in DOMAIN upCalls :
        upCalls[i].raised \in ClientConnectionFailures =>
            /\ upPc # "raised"
            /\ upErr = NoError
            /\ upSlept >= UploadCooldown
            /\ (i < Len(upCalls) => upCalls[i + 1].chunk = upCalls[i].chunk)

\* C6: every call of _upload_record_chunk resolves the handle itself; a
\* datastore_upsert request is sent only with the identifier that call's
\* resolution gave, and a resolution that gave None sends nothing and ends
\* _upload_records with a failure, so that no later chunk is uploaded.
C6_NoUpsertWithoutHandle ==
    \A i \in DOMAIN upCalls :
        /\ upCalls[i].sent =>
              /\ upCalls[i].resolved \in ResourceIds
              /\ upCalls[i].resource_id = upCalls[i].resolved
        /\ upCalls[i].resolved = NoneId =>
              /\ ~upCalls[i].sent
              /\ i = Len(upCalls)
              /\ upPc = "raised"
              /\ upErr = "AssertionError"

C6_Witness ==
    /\ Len(upCalls) >= 2
    /\ upCalls[1].sent
    /\ upCalls[Len(upCalls)].resolved = NoneId
    /\ upPc = "raised"
    /\ left_bound < Len(records)

\* C7: get_data_by_month calls get_data_by_day for exactly the days 1..D, in
\* order, where D is 31 for months 1-6, 30 for months 7-11, and for month 12
\* 30 if year mod 33 is one of 1, 5, 9, 13, 17, 22, 26, 30 and 29 otherwise.
C7_MonthDays ==
    (wlkPc = "returned" /\ wlkArgs.walker = "month") =>
        LET leap == (wlkArgs.year % 33) \in {1, 5, 9, 13, 17, 22, 26, 30}
            D == CASE wlkArgs.month \in 1..6 -> 31
                   [] wlkArgs.month \in 7..11 -> 30
                   [] wlkArgs.month = 12 -> IF leap THEN 30 ELSE 29
        IN  wlkDays = [d \in 1..D |-> d]

C7_Witness ==
    /\ wlkPc = "returned"
    /\ wlkArgs.walker = "month"
    /\ wlkArgs.month = 12
    /\ Len(wlkDays) = 30
    /\ ~wlkResult.none

\* C8: the ID _clean_output_table gives a row is the 8 digits of its date,
\* its hour in 2 digits and its station ID in 3 digits; rows of the same
\* date, hour and station get the same ID and rows that differ in one of
\* them get different IDs (hours 0..23, station IDs 1..999).
C8_CompositeKeyInjective ==
    keyPc = "returned" =>
        /\ \A i \in DOMAIN keyOut :
              LET date == keyCells[i][1]
                  hour == keyCells[i][2]
                  id == keyCells[i][3]
              IN  keyOut[i].ID =
                      Str(date[1]) \o TwoDigits(date[2]) \o TwoDigits(date[3])
                      \o TwoDigits(hour)
                      \o <<DigitChars[(id \div 100) + 1]>> \o TwoDigits(id % 100)
        /\ \A i, j \in DOMAIN keyOut :
              (keyOut[i].ID = keyOut[j].ID) <=> (keyCells[i] = keyCells[j])

C8_Witness ==
    /\ keyPc = "returned"
    /\ keyCells[1] = <<<<1402, 2, 1>>, 1, 11>>
    /\ keyCells[2] = <<<<1402, 2, 1>>, 11, 1>>
    /\ keyOut[1].ID # keyOut[2].ID

\* C9: get_data_by_day sends one request, for the day asked, for every
\* station of the catalog established on or before that day, and none for a
\* station established later.
C9_RequestsIffEstablished ==
    (wlkPc = "returned" /\ wlkArgs.walker = "day") =>
        LET day == <<wlkArgs.year, wlkArgs.month, wlkArgs.day>> IN
        /\ \A j \in DOMAIN wlkRequests : wlkRequests[j].date = SiteDate(day)
        /\ \A i \in DOMAIN siteStations :
              siteStations[i].est # NaN =>
                  Cardinality({j \in DOMAIN wlkRequests :
                      wlkRequests[j].station = Str(siteStations[i].ID)})
                  = IF OnOrBefore(siteStations[i].est, day) THEN 1 ELSE 0

C9_Witness ==
    /\ wlkPc = "returned"
    /\ wlkArgs.walker = "day"
    /\ \E i, j \in DOMAIN siteStations :
          /\ siteStations[i].est = <<wlkArgs.year, wlkArgs.month, wlkArgs.day>>
          /\ siteStations[j].est # NaN
          /\ ~OnOrBefore(siteStations[j].est,
                         <<wlkArgs.year, wlkArgs.month, wlkArgs.day>>)
    /\ Len(wlkRequests) = 1

\* C10: in the result of get_data_by_day no row comes from a sentinel table;
\* every requested station whose table is not the sentinel contributes all
\* the rows of its table, and the rows follow the order of the stations.
C10_SentinelContributesNothing ==
    (wlkPc = "returned" /\ wlkArgs.walker = "day") =>
        LET rows == wlkResult.rows
            hoursOf == wlkSite[wlkArgs.day]
            date == SiteDate(<<wlkArgs.year, wlkArgs.month, wlkArgs.day>>)
            Asked(id) == \E j \in DOMAIN wlkRequests :
                             wlkRequests[j].station = Str(id)
            Place(name) == CHOOSE j \in DOMAIN wlkRequests :
                  \E id \in StationIds : /\ StationName(id) = name
                                         /\ wlkRequests[j].station = Str(id)
        IN  /\ \A i \in DOMAIN rows : rows[i].Station # Sentinel
            /\ \A i \in DOMAIN rows :
                  \E id \in StationIds :
                      Asked(id) /\ rows[i].Station = StationName(id)
            /\ \A id \in StationIds :
                  Asked(id) =>
                      LET Own(r) == r.Station = StationName(id) IN
                      SelectSeq(rows, Own) =
                          IF hoursOf[id] = 0 THEN <<>>
                          ELSE StationTable(id, date, hoursOf[id])
            /\ \A i, j \in DOMAIN rows :
                  i < j => Place(rows[i].Station) <= Place(rows[j].Station)

C10_Witness ==
    /\ wlkPc = "returned"
    /\ wlkArgs.walker = "day"
    /\ Len(wlkRequests) = 2
    /\ wlkSite[wlkArgs.day][siteStations[1].ID] = 0
    /\ Len(wlkResult.rows) = 2

\* C11: at each level of the date grid the result is null exactly when no
\* day in the query's range has data at a station established by that day;
\* otherwise it is the concatenation, in the order of the requests (ascending
\* dates), of the tables of the requested station-days that are not the
\* sentinel.
C11_NullIffNoData ==
    (wlkPc = "returned" /\ wlkArgs.walker \in {"day", "month", "year"}) =>
        LET y == wlkArgs.year
            Scope ==
                CASE wlkArgs.walker = "day" -> {<<wlkArgs.month, wlkArgs.day>>}
                  [] wlkArgs.walker = "month" ->
                         {<<wlkArgs.month, d>> : d \in 1..MaxDay(y, wlkArgs.month)}
                  [] wlkArgs.walker = "year" ->
                         {c \in (1..12) \X MonthDays : c[2] <= MaxDay(y, c[1])}
            HoursAt(m, d, id) == IF wlkArgs.walker = "year"
                                 THEN wlkSite[m][d][id] ELSE wlkSite[d][id]
            HasData ==
                \E c \in Scope, i \in DOMAIN siteStations :
                    /\ siteStations[i].est # NaN
                    /\ OnOrBefore(siteStations[i].est, <<y, c[1], c[2]>>)
                    /\ HoursAt(c[1], c[2], siteStations[i].ID) > 0
            TableOf(req) ==
                LET id == CHOOSE k \in StationIds : Str(k) = req.station
                    hours == HoursAt(ParseInt(SubSeq(req.date, 6, 7)),
                                     ParseInt(SubSeq(req.date, 9, 10)), id)
                IN  IF hours = 0 THEN <<>> ELSE StationTable(id, req.date, hours)
            expected == Concat([j \in DOMAIN wlkRequests |->
                                   TableOf(wlkRequests[j])])
        IN  /\ wlkResult.none <=> ~HasData
            /\ wlkResult.rows = expected
            /\ \A j \in DOMAIN wlkRequests :
                  j > 1 => StrLeq(wlkRequests[j - 1].date, wlkRequests[j].date)

C11_Witness ==
    /\ wlkPc = "returned"
    /\ wlkArgs.walker = "year"
    /\ ~wlkResult.none
    /\ Len(wlkResult.rows) = 2
    /\ wlkResult.rows[1].Date # wlkResult.rows[2].Date
    /\ wlkSite[1][1][1] = 1
    /\ wlkResult.rows[1].Date # DateString(wlkArgs.year, 1, 1)

\* C12: when a year, month or day query finds no data at all, get_data
\* returns a null result and upsert_data finishes without raising an error,
\* handing nothing to upsert_results for the Pollution table.
C12_NoDataIsNoError ==
    (/\ wlkPc = "returned"
     /\ wlkArgs.walker \in {"get_data", "upsert_data"}
     /\ Dispatch(wlkArgs.given) \in {"year", "month", "day"}
     /\ wlkResult.none) =>
        /\ dataErr = NoError
        /\ dataOut = <<>>
        /\ dataUpserts = <<>>

\* C13: get_data runs the year walk when only the year is given, the month
\* walk for year and month, the day walk for year, month and day, and one
\* station-day request when the station is given too; the table it returns
\* is the walker's table with the IDs of _clean_output_table.
C13_DispatchMostSpecific ==
    (wlkPc = "returned" /\ wlkArgs.walker \in {"get_data", "upsert_data"}) =>
        LET y == wlkArgs.year
            m == wlkArgs.month
            d == wlkArgs.day
            MonthOf(req) == ParseInt(SubSeq(req.date, 6, 7))
            YearLength == 6 * 31 + 5 * 30 +
                (IF (y % 33) \in {1, 5, 9, 13, 17, 22, 26, 30} THEN 30 ELSE 29)
        IN  /\ wlkArgs.given = {} =>
                  /\ Len(wlkDays) = YearLength
                  /\ wlkDays[1] = 1 /\ wlkDays[32] = 1
            /\ wlkArgs.given = {"month"} =>
                  /\ Len(wlkDays) \in 29..31
                  /\ \A i \in DOMAIN wlkDays : wlkDays[i] = i
                  /\ \A j \in DOMAIN wlkRequests : MonthOf(wlkRequests[j]) = m
            /\ wlkArgs.given = {"month", "day"} =>
                  /\ wlkDays = <<d>>
                  /\ \A j \in DOMAIN wlkRequests :
                        wlkRequests[j].date = SiteDate(<<y, m, d>>)
            /\ wlkArgs.given = {"month", "day", "station"} =>
                  /\ wlkDays = <<>>
                  /\ wlkRequests = <<[station |-> Str(wlkArgs.station),
                                      date |-> SiteDate(<<y, m, d>>)]>>
            /\ dataErr = NoError =>
                  /\ Len(dataOut) = Len(wlkResult.rows)
                  /\ \A i \in DOMAIN dataOut :
                        /\ dataOut[i].Date = wlkResult.rows[i].Date
                        /\ Len(dataOut[i].ID) = 13
                        /\ SubSeq(dataOut[i].ID, 1, 8) =
                               RemoveSlashes(wlkResult.rows[i].Date)

C13_Witness ==
    /\ wlkPc = "returned"
    /\ wlkArgs.walker = "get_data"
    /\ wlkArgs.given = {"month", "day"}
    /\ stations_info.fetched
    /\ dataErr = NoError
    /\ Len(dataOut) = 1

\* C14: when a row of the table carries a station name that is not among the
\* station options, _clean_output_table does not return: it fails, and no
\* row with that station comes out of it.
C14_UnknownStationFails ==
    (/\ keyPc # "call"
     /\ \E i \in DOMAIN keyTable : keyCells[i][3] \notin stations) =>
        /\ keyPc # "returned"
        /\ \A i \in DOMAIN keyOut : ~keyOut[i].Station.nan

\* C15: every request a session sends carries the cookie of that session and
\* exactly the hidden-field values of that session's own initial page: no
\* cookie or hidden field of another session, whether opened before or
\* after it.
C15_SessionStateIsOwn ==
    \A i \in DOMAIN sesSent :
        LET s == sesSent[i].session IN
        /\ sesSent[i].Cookie = sesOpened[s]
        /\ \A n \in HiddenNames :
              sesSent[i].data[n] = IF n \in sesPage[s] THEN sesOpened[s] ELSE 0

\* C16: an hourly run that has sent the "start" ping ends by sending the
\* success ping or the "fail" ping, whatever happened in between: no failure
\* of the scrape, the store or the upload leaves the run before that ping.
C16_RunEndsWithPing ==
    (/\ schJob = "hourly_update"
     /\ schPings # <<>>
     /\ schPc \in {"run pinged", "loop", "crashed"}) =>
        /\ Len(schPings) = 2
        /\ schPings[2] \in {"success", "fail"}

\* C18: get_and_upload_data makes at most 3 attempts, each with a new
\* session, sleeps the cooldown once for every attempt that timed out, calls
\* the upload at most once and only after an attempt that completed, and
\* returns False without an upload when all 3 attempts timed out.
C18_BoundedRetryWithCooldown ==
    LET timeouts == {i \in DOMAIN schAttempts : schAttempts[i] \in TimedOut}
    IN  /\ Len(schAttempts) <= ScrapeAttempts
        /\ schSessions = Len(schAttempts)
        /\ schSlept = ScrapeCooldown * Cardinality(timeouts)
        /\ schUploads <= 1
        /\ schUploads = 1 => schAttempts[Len(schAttempts)] = "completed"
        /\ (Cardinality(timeouts) = ScrapeAttempts /\ schPc # "attempts") =>
              (schReturn = "False" /\ schUploads = 0)

\* C17: the filter of build_id_filter_query selects exactly the stored rows
\* whose year, and whose month, day and station when they are given, equal
\* the arguments, at any hour; with a station given it selects that
\* station's rows and no other station's.
C17_FilterSelectsGivenComponents ==
    fltPc = "returned" =>
        fltSelected =
            {cell \in fltStored :
                /\ cell[1][1] = fltArgs.year
                /\ "month" \in fltArgs.given => cell[1][2] = fltArgs.month
                /\ "day" \in fltArgs.given => cell[1][3] = fltArgs.day
                /\ "station" \in fltArgs.given => cell[3] = fltArgs.station}

C20_UploadTerminates ==
    /\ <>(upPc \in {"done", "raised"})
    /\ [][/\ (upPc = "while" /\ upPc' = "try") =>
                (left_bound' > left_bound /\ left_bound' <= Len(records))
          /\ (upPc = "while" /\ upPc' = "done") => left_bound = Len(records)
          /\ (/\ Len(upCalls') > Len(upCalls)
              /\ CaughtAsJson(upCalls'[Len(upCalls')].raised)) =>
                (/\ upPc' = "try"
                 /\ left_bound' = left_bound
                 /\ report_chunk' = report_chunk)]_vars

C20_Witness ==
    /\ upPc = "done"
    /\ Len(records) = MaxRecords
    /\ chunk_size = 1
    /\ \E i \in DOMAIN upCalls : CaughtAsJson(upCalls[i].raised)

=============================================================================
